---- MODULE Spec2Model ----
(***************************************************************************)
(* Pipeline topology of the console's pipelines plugin: the transformation *)
(* of a task list into graph nodes and edges (pipeline-topology/utils.ts), *)
(* the builder's node list (useNodes) and the builder's resource           *)
(* validation (useResourceValidation).                                      *)
(*                                                                         *)
(* A JavaScript object is a record; an optional property that is absent is *)
(* a field that is not in the record's DOMAIN; an array is a sequence.     *)
(***************************************************************************)
EXTENDS Integers, Sequences, FiniteSets, TLC

VARIABLES
    pipeline,      \* the PipelineKind shown by the viewer
    pipelineRun,   \* the optional PipelineRunKind overlay: <<>> when absent
    nodes,         \* getTopologyNodesEdges(...).nodes of the last render
    edges,         \* getTopologyNodesEdges(...).edges of the last render
    taskGroup,     \* the builder's PipelineBuilderTaskGroup
    watch,         \* what useK8sWatchResources gives useTasks
    tasksInError,  \* the builder's TaskErrorMap
    builderNodes,  \* useNodes(...).nodes of the last render of the builder
    formValues,    \* the arguments of useResourceValidation: tasks, finallyTasks,
                   \* resourceValues, workspaceValues
    previousErrorIds, \* the state of useResourceValidation
    effectDue,     \* a dependency of the effect changed since it last ran
    effectRuns,    \* flips at every run of the effect
    onErrorCalls,  \* flips at every call of onError
    onErrorArg,    \* the argument of the last call of onError
    onErrorBefore, \* the argument of the call of onError before the last
    idUpdates      \* the updates of previousErrorIds since an argument last changed

viewerVars == <<pipeline, pipelineRun, nodes, edges>>
builderVars == <<taskGroup, watch, tasksInError, builderNodes>>
validationVars ==
    <<formValues, previousErrorIds, effectDue, effectRuns, onErrorCalls, onErrorArg,
      onErrorBefore, idUpdates>>
vars == <<viewerVars, builderVars, validationVars>>

(***************************************************************************)
(* Bounds and the universe of names.                                       *)
(***************************************************************************)
MaxTasks == 4
MaxFinally == 1
MaxBuilderNodes == 2
\* idUpdates counts no further
MaxIdUpdates == 3

\* Task names, in the order localeCompare gives them. Tekton task names are
\* DNS labels: lower-case letters, digits and '-'.
NameOrder == <<"a", "b", "parallel-a-b", "x", "y">>
TaskNames == {NameOrder[i] : i \in 1..Len(NameOrder)}
\* The names a runAfter list may hold (they need not be tasks of the list).
PredNames == {"x", "y"}
\* The names of the finally tasks, in the order they are declared.
FinallyNames == <<"cleanup", "notify", "report">>
\* The names of the builder's tasks and list tasks, in the order they are added
BuilderNames == <<"a", "b", "x">>
\* The builder's finally list tasks, in the order they are added
FinallyListNames == <<"finally-list-1", "finally-list-2", "finally-list-3">>

(***************************************************************************)
(* Array helpers.                                                          *)
(***************************************************************************)
Range(s) == {s[i] : i \in 1..Len(s)}

RECURSIVE Concat(_)
\* _.flatten / Array.prototype.concat over a list of lists
Concat(ss) == IF ss = <<>> THEN <<>> ELSE Head(ss) \o Concat(Tail(ss))

RECURSIVE Join(_, _)
\* Array.prototype.join(sep), and reduce((str, ref) => `${str}<sep>${ref}`)
Join(strs, sep) ==
    IF strs = <<>> THEN ""
    ELSE IF Len(strs) = 1 THEN strs[1]
    ELSE Join(SubSeq(strs, 1, Len(strs) - 1), sep) \o sep \o strs[Len(strs)]

\* a.localeCompare(b) < 0, = 0, > 0 as -1, 0, 1
Rank(s) == CHOOSE i \in 1..Len(NameOrder) : NameOrder[i] = s
localeCompare(a, b) ==
    IF Rank(a) < Rank(b) THEN 0 - 1 ELSE IF Rank(a) > Rank(b) THEN 1 ELSE 0

RECURSIVE InsertSorted(_, _)
InsertSorted(sorted, s) ==
    IF sorted = <<>> THEN <<s>>
    ELSE IF localeCompare(s, Head(sorted)) < 0 THEN <<s>> \o sorted
    ELSE <<Head(sorted)>> \o InsertSorted(Tail(sorted), s)

RECURSIVE SortNames(_)
\* [...runAfter].sort((a, b) => a.localeCompare(b)): a stable sort
SortNames(strs) ==
    IF strs = <<>> THEN <<>>
    ELSE InsertSorted(SortNames(SubSeq(strs, 1, Len(strs) - 1)), strs[Len(strs)])

RECURSIVE Uniq(_)
\* _.uniq: the first occurrence of each value, in order
Uniq(s) ==
    IF s = <<>> THEN <<>>
    ELSE LET front == Uniq(SubSeq(s, 1, Len(s) - 1))
             last == s[Len(s)]
         IN IF last \in Range(front) THEN front ELSE Append(front, last)

\* _.difference(array, values)
Difference(s, others) == SelectSeq(s, LAMBDA v : v \notin Range(others))

HasRunAfter(task) == "runAfter" \in DOMAIN task

\* {...obj, [key]: value}
WithField(obj, key, value) ==
    [k \in DOMAIN obj \cup {key} |-> IF k = key THEN value ELSE obj[k]]

(***************************************************************************)
(* The sizes utils.ts imports from ./const                                 *)
(***************************************************************************)
NODE_WIDTH == 120
NODE_HEIGHT == 30
FINALLY_NODE_PADDING == 30
FINALLY_NODE_VERTICAL_SPACING == 20

(***************************************************************************)
(* Node creators. An optional width or height is <<>> when not given.      *)
(***************************************************************************)
\* value ?? fallback
Nullish(opt, fallback) == IF opt = <<>> THEN fallback ELSE opt[1]

createGenericNode(type, width, height, name, data) ==
    [id |-> name,
     data |-> data,
     height |-> Nullish(height, NODE_HEIGHT),
     width |-> Nullish(width, NODE_WIDTH),
     type |-> type]

createTaskNode(name, data) == createGenericNode("TASK_NODE", <<>>, <<>>, name, data)
createSpacerNode(name, data) == createGenericNode("SPACER_NODE", <<0>>, <<>>, name, data)
createTaskListNode(name, data) ==
    createGenericNode("TASK_LIST_NODE", <<>>, <<>>, name, data)
createInvalidTaskListNode(name, data) ==
    createGenericNode("INVALID_TASK_LIST_NODE", <<>>, <<>>, name, data)
createBuilderNode(name, data) == createGenericNode("BUILDER_NODE", <<>>, <<>>, name, data)
createFinallyNode(height, name, data) ==
    createGenericNode("FINALLY_NODE", <<NODE_WIDTH + FINALLY_NODE_PADDING * 2>>,
                      <<height>>, name, data)
createBuilderFinallyNode(height, name, data) ==
    createGenericNode("BUILDER_FINALLY_NODE", <<NODE_WIDTH + FINALLY_NODE_PADDING * 2>>,
                      <<height>>, name, data)

\* The creator getNodeCreator returns, by name
getNodeCreator(type) ==
    CASE type = "TASK_LIST_NODE" -> "createTaskListNode"
      [] type = "BUILDER_NODE" -> "createBuilderNode"
      [] type = "SPACER_NODE" -> "createSpacerNode"
      [] OTHER -> "createTaskNode"

\* Calling the creator getNodeCreator returned
CallCreator(creator, name, data) ==
    CASE creator = "createTaskListNode" -> createTaskListNode(name, data)
      [] creator = "createBuilderNode" -> createBuilderNode(name, data)
      [] creator = "createSpacerNode" -> createSpacerNode(name, data)
      [] creator = "createTaskNode" -> createTaskNode(name, data)

(***************************************************************************)
(* handleParallelToParallelNodes                                           *)
(***************************************************************************)
\* The key without the sort: runAfter lists in different orders get different keys
RunBeforeKeyUnsorted(runAfter) == Join(runAfter, "|")

\* The key of multipleRunBeforeMap: the sorted runAfter joined by '|'
RunBeforeKey(runAfter) == Join(SortNames(runAfter), "|")

RECURSIVE CollectRunBefore(_, _, _)
\* The reduce that builds multipleRunBeforeMap: the map is the sequence of its
\* entries [id, refs] in insertion order, the order Object.values lists them in.
CollectRunBefore(nodeList, idx, acc) ==
    IF idx > Len(nodeList) THEN acc
    ELSE LET node == nodeList[idx]
             task == node.data.task
         IN IF HasRunAfter(task) /\ Len(task.runAfter) > 1
            THEN LET id == RunBeforeKey(task.runAfter)
                     ref == [node |-> node, runAfter |-> task.runAfter,
                             atIndex |-> idx - 1]
                     at == {k \in 1..Len(acc) : acc[k].id = id}
                 IN IF at = {}
                    THEN CollectRunBefore(nodeList, idx + 1,
                                          Append(acc, [id |-> id, refs |-> <<ref>>]))
                    ELSE CollectRunBefore(nodeList, idx + 1,
                             [k \in 1..Len(acc) |->
                                 IF k \in at
                                 THEN [acc[k] EXCEPT !.refs = Append(@, ref)]
                                 ELSE acc[k]])
            ELSE CollectRunBefore(nodeList, idx + 1, acc)

multipleRunBeforeMap(nodeList) == CollectRunBefore(nodeList, 1, <<>>)

\* Trim out single occurrences
multiParallelToParallelList(nodeList) ==
    LET entries == multipleRunBeforeMap(nodeList)
        kept == SelectSeq(entries, LAMBDA entry : Len(entry.refs) > 1)
    IN [g \in 1..Len(kept) |-> kept[g].refs]

\* p2p.map((p2pData) => p2pData.node.id)
p2pNames(p2p) == [k \in 1..Len(p2p) |-> p2p[k].node.id]

\* The spacer name from the sorted ids of the members
parallelSpacerNameSorted(p2p) == "parallel-" \o Join(SortNames(p2pNames(p2p)), "-")

parallelSpacerName(p2p) == "parallel-" \o Join(p2pNames(p2p), "-")

\* The spacer node pushed for one group
p2pSpacerNode(p2p) ==
    createSpacerNode(parallelSpacerName(p2p),
        [task |-> [name |-> parallelSpacerName(p2p), runAfter |-> p2p[1].runAfter]])

\* newRunAfterNodeMap[nodeId] once every group is handled: the spacer names
\* pushed for nodeId, one per occurrence of nodeId in a group's names, in order;
\* <<>> stands for an id the map does not hold.
newRunAfterNodeMap(p2pList, nodeId) ==
    Concat([g \in 1..Len(p2pList) |->
               LET hits == SelectSeq(p2pNames(p2pList[g]), LAMBDA n : n = nodeId)
               IN [k \in 1..Len(hits) |-> parallelSpacerName(p2pList[g])]])

\* The node pushed for one input node: recreated when the map holds spacers for
\* its id, carried over otherwise
p2pUpdatedNode(p2pList, node) ==
    LET newRunAfters == newRunAfterNodeMap(p2pList, node.id)
    IN IF Len(newRunAfters) > 0
       THEN CallCreator(getNodeCreator(node.type), node.id,
                WithField(node.data, "task",
                    WithField(node.data.task, "runAfter", newRunAfters)))
       ELSE node

\* The members are pointed at spacers that are not added to the node list
handleParallelToParallelNodesNoSpacer(nodeList) ==
    LET p2pList == multiParallelToParallelList(nodeList)
    IN [i \in 1..Len(nodeList) |-> p2pUpdatedNode(p2pList, nodeList[i])]

handleParallelToParallelNodes(nodeList) ==
    LET p2pList == multiParallelToParallelList(nodeList)
    IN IF Len(p2pList) = 0
       THEN nodeList
       ELSE [g \in 1..Len(p2pList) |-> p2pSpacerNode(p2pList[g])]
            \o [i \in 1..Len(nodeList) |-> p2pUpdatedNode(p2pList, nodeList[i])]

(***************************************************************************)
(* The viewer: tasks to nodes, the finally node, edges                     *)
(***************************************************************************)
\* A reference to an object held in a node's data; "undefined" when absent
RefTo(obj) == IF obj = <<>> THEN "undefined" ELSE obj.metadata.name

\* pipeline-utils: the tasks of the pipeline in stages, each task with the
\* status the run gives it
getPipelineTasks(pl, run) ==
    [i \in 1..Len(pl.spec.tasks) |->
        <<IF run = <<>> THEN pl.spec.tasks[i]
          ELSE WithField(pl.spec.tasks[i], "status", run.status)>>]

\* pipeline-utils: the finally tasks of the pipeline with the run's status
getFinallyTasksWithStatus(pl, run) ==
    [i \in 1..Len(pl.spec.finally) |->
        WithField(pl.spec.finally[i], "status", run.status)]

\* The nodeList of tasksToNodes: one task node per task
taskNodeList(taskList, pl, run) ==
    [i \in 1..Len(taskList) |->
        createTaskNode(taskList[i].name,
            [task |-> taskList[i], pipeline |-> RefTo(pl),
             pipelineRun |-> RefTo(run)])]

tasksToNodes(taskList, pl, run) ==
    handleParallelToParallelNodes(taskNodeList(taskList, pl, run))

\* What the map callback of getEdgesFromNodes returns for a node with no
\* runAfter
Null == [type |-> "null"]

\* The map callback with the test runAfter.length <= 1: a single predecessor
\* gets no edge
edgesOfNodeWhenSeveral(node) ==
    LET target == node.data.task.name
        runAfter == IF HasRunAfter(node.data.task) THEN node.data.task.runAfter
                    ELSE <<>>
    IN IF Len(runAfter) <= 1 THEN <<Null>>
       ELSE [k \in 1..Len(runAfter) |->
                [id |-> runAfter[k] \o "~to~" \o target,
                 type |-> "edge",
                 source |-> runAfter[k],
                 target |-> target]]

\* The map callback of getEdgesFromNodes, its result as _.flatten spreads it
edgesOfNode(node) ==
    LET target == node.data.task.name
        runAfter == IF HasRunAfter(node.data.task) THEN node.data.task.runAfter
                    ELSE <<>>
    IN IF Len(runAfter) = 0 THEN <<Null>>
       ELSE [k \in 1..Len(runAfter) |->
                [id |-> runAfter[k] \o "~to~" \o target,
                 type |-> "edge",
                 source |-> runAfter[k],
                 target |-> target]]

getEdgesFromNodes(nodeList) ==
    SelectSeq(Concat([i \in 1..Len(nodeList) |-> edgesOfNode(nodeList[i])]),
              LAMBDA edgeList : edgeList # Null)

getFinallyTaskHeight(allTasksLength, disableBuilder) ==
    allTasksLength * NODE_HEIGHT
    + (allTasksLength - 1) * FINALLY_NODE_VERTICAL_SPACING
    + (IF ~disableBuilder THEN NODE_HEIGHT ELSE 0)
    + FINALLY_NODE_PADDING * 2

\* The nodes that run after nothing, in place of the nodes nothing runs after
getFirstRegularTasks(regularTasks) ==
    LET firsts == SelectSeq(regularTasks,
                      LAMBDA n : ~HasRunAfter(n.data.task) \/ n.data.task.runAfter = <<>>)
    IN [i \in 1..Len(firsts) |-> firsts[i].id]

getLastRegularTasks(regularTasks) ==
    LET runAfters ==
            Uniq(Concat([i \in 1..Len(regularTasks) |->
                    IF HasRunAfter(regularTasks[i].data.task)
                    THEN regularTasks[i].data.task.runAfter ELSE <<>>]))
    IN Difference([i \in 1..Len(regularTasks) |-> regularTasks[i].id], runAfters)

\* !pipeline.spec?.finally: an array, empty or not, is truthy
NoFinally(pl) == "spec" \notin DOMAIN pl \/ "finally" \notin DOMAIN pl.spec

connectFinallyTasksToNodes(nodeList, pl, run) ==
    IF NoFinally(pl) THEN nodeList
    ELSE LET finallyTasks == IF run # <<>> THEN getFinallyTasksWithStatus(pl, run)
                             ELSE pl.spec.finally
             regularRunAfters == getLastRegularTasks(nodeList)
             name == "finally-node"
             finallyGroupNode ==
                 createFinallyNode(getFinallyTaskHeight(Len(finallyTasks), TRUE), name,
                     [isFinallyTask |-> TRUE,
                      pipeline |-> RefTo(pl),
                      pipelineRun |-> RefTo(run),
                      task |-> [isFinallyTask |-> TRUE,
                                name |-> name,
                                runAfter |-> regularRunAfters,
                                finallyTasks |->
                                    [i \in 1..Len(finallyTasks) |->
                                        WithField(finallyTasks[i], "disableTooltip",
                                                  FALSE)]]])
         IN Append(nodeList, finallyGroupNode)

getTopologyNodesEdges(pl, run) ==
    LET taskList == Concat(getPipelineTasks(pl, run))
        taskNodes == tasksToNodes(taskList, pl, run)
        topologyNodes == connectFinallyTasksToNodes(taskNodes, pl, run)
    IN [nodes |-> topologyNodes, edges |-> getEdgesFromNodes(topologyNodes)]

(***************************************************************************)
(* The builder: useTasks, useNodes, useConnectFinally                      *)
(***************************************************************************)
\* useTasks: each list is <<data>> once loaded without error, <<>> (null) before
useTasks(w) ==
    [namespacedTasks |->
        IF w.tasks.loaded /\ ~w.tasks.loadError THEN <<w.tasks.data>> ELSE <<>>,
     clusterTasks |->
        IF w.clusterTasks.loaded /\ ~w.clusterTasks.loadError
        THEN <<w.clusterTasks.data>> ELSE <<>>]

\* list?.find((task) => task.metadata.name === name): <<task>>, or <<>> for
\* undefined
FindByName(list, name) ==
    IF list = <<>> THEN <<>>
    ELSE LET hits == SelectSeq(list[1], LAMBDA t : t.metadata.name = name)
         IN IF hits = <<>> THEN <<>> ELSE <<hits[1]>>

getTask(catalog, taskRef) ==
    IF taskRef.kind = "ClusterTask"
    THEN FindByName(catalog.clusterTasks, taskRef.name)
    ELSE FindByName(catalog.namespacedTasks, taskRef.name)

\* builder/const: the error types a node shows
nodeTaskErrors == <<"MISSING_RESOURCES", "MISSING_WORKSPACES">>

\* builder/utils: the message of the first error of the task that is among
\* errorTypes, "null" when there is none
getErrorMessage(errorTypes, errorMap, taskName) ==
    IF taskName \notin DOMAIN errorMap THEN "null"
    ELSE LET hasRequestedError ==
                 SelectSeq(errorMap[taskName], LAMBDA e : e \in Range(errorTypes))
         IN IF Len(hasRequestedError) > 0 THEN hasRequestedError[1] ELSE "null"

\* A callback of a node is the update operation it sends to onUpdateTasks
tasksToBuilderNodes(taskList, errorMap, selectedIds) ==
    [i \in 1..Len(taskList) |->
        createBuilderNode(taskList[i].name,
            [error |-> getErrorMessage(nodeTaskErrors, errorMap, taskList[i].name),
             task |-> taskList[i],
             selected |-> taskList[i].name \in Range(selectedIds),
             onNodeSelection |-> "onTaskSelection",
             onAddNode |-> "ADD_LIST_TASK"])]

\* runAfter || []
OrEmpty(task) == IF HasRunAfter(task) THEN task.runAfter ELSE <<>>

newListNode(catalog, name, runAfter, firstTask) ==
    createTaskListNode(name,
        [namespaceTaskList |-> catalog.namespacedTasks,
         clusterTaskList |-> catalog.clusterTasks,
         onNewTask |-> "CONVERT_LIST_TO_TASK",
         onRemoveTask |-> IF firstTask THEN "null" ELSE "DELETE_LIST_TASK",
         task |-> [name |-> name, runAfter |-> runAfter]])

\* soloTask(taskGroup.listTasks[0]?.name): the name defaults to 'initial-node'
soloTask(catalog, listTasks) ==
    newListNode(catalog,
                IF Len(listTasks) > 0 THEN listTasks[1].name ELSE "initial-node",
                <<>>, TRUE)

newInvalidListNode(catalog, name, runAfter) ==
    createInvalidTaskListNode(name,
        [namespaceTaskList |-> catalog.namespacedTasks,
         clusterTaskList |-> catalog.clusterTasks,
         onNewTask |-> "FIX_INVALID_LIST_TASK",
         onRemoveTask |-> "REMOVE_TASK",
         task |-> [name |-> name, runAfter |-> runAfter]])

\* The node list useNodes hands to handleParallelToParallelNodes
builderNodeList(group, w, errorMap) ==
    LET catalog == useTasks(w)
        invalidTaskList == SelectSeq(group.tasks,
                               LAMBDA task : getTask(catalog, task.taskRef) = <<>>)
        validTaskList == SelectSeq(group.tasks,
                             LAMBDA task : getTask(catalog, task.taskRef) # <<>>)
        invalidTaskListNodes ==
            [i \in 1..Len(invalidTaskList) |->
                newInvalidListNode(catalog, invalidTaskList[i].name,
                                   OrEmpty(invalidTaskList[i]))]
        taskNodes ==
            IF Len(validTaskList) > 0
            THEN tasksToBuilderNodes(validTaskList, errorMap, group.highlightedIds)
            ELSE <<>>
        taskListNodes ==
            IF Len(group.tasks) = 0 /\ Len(group.listTasks) <= 1
            THEN <<soloTask(catalog, group.listTasks)>>
            ELSE [i \in 1..Len(group.listTasks) |->
                     newListNode(catalog, group.listTasks[i].name,
                                 OrEmpty(group.listTasks[i]), FALSE)]
    IN taskNodes \o taskListNodes \o invalidTaskListNodes

useConnectFinally(nodeList, group, w, errorMap) ==
    LET catalog == useTasks(w)
        allTasksLength == Len(group.finallyTasks) + Len(group.finallyListTasks)
        finallyNodeName == "finally-node-" \o ToString(Len(group.finallyTasks))
                           \o "-" \o ToString(Len(group.finallyListTasks))
        regularRunAfters == getLastRegularTasks(nodeList)
    IN createBuilderFinallyNode(getFinallyTaskHeight(allTasksLength, FALSE),
           finallyNodeName,
           [isFinallyTask |-> TRUE,
            namespaceTaskList |-> catalog.namespacedTasks,
            clusterTaskList |-> catalog.clusterTasks,
            task |-> [isFinallyTask |-> TRUE,
                      name |-> finallyNodeName,
                      runAfter |-> regularRunAfters,
                      addNewFinallyListNode |-> "ADD_FINALLY_LIST_TASK",
                      finallyTasks |->
                          [i \in 1..Len(group.finallyTasks) |->
                              [name |-> group.finallyTasks[i].name,
                               taskRef |-> group.finallyTasks[i].taskRef,
                               onTaskSelection |-> "onTaskSelection",
                               error |-> getErrorMessage(nodeTaskErrors, errorMap,
                                             group.finallyTasks[i].name),
                               selected |-> group.finallyTasks[i].name
                                               \in Range(group.highlightedIds),
                               disableTooltip |-> TRUE]],
                      finallyListTasks |->
                          [i \in 1..Len(group.finallyListTasks) |->
                              [name |-> group.finallyListTasks[i].name,
                               convertList |-> "CONVERT_LIST_TO_FINALLY_TASK",
                               onRemoveTask |-> "DELETE_LIST_TASK"]]]])

\* useNodes as it would be with the viewer's rule: the finally node only when
\* the task group has finally tasks or finally list placeholders
useNodesWhenFinally(group, w, errorMap) ==
    LET catalog == useTasks(w)
        normalized == handleParallelToParallelNodes(builderNodeList(group, w, errorMap))
        localTaskCount ==
            IF catalog.namespacedTasks = <<>> THEN 0 ELSE Len(catalog.namespacedTasks[1])
        clusterTaskCount ==
            IF catalog.clusterTasks = <<>> THEN 0 ELSE Len(catalog.clusterTasks[1])
        finallyNode == useConnectFinally(normalized, group, w, errorMap)
    IN [tasksCount |-> localTaskCount + clusterTaskCount,
        tasksLoaded |-> catalog.namespacedTasks # <<>> /\ catalog.clusterTasks # <<>>,
        nodes |-> IF Len(group.finallyTasks) + Len(group.finallyListTasks) = 0
                  THEN normalized
                  ELSE Append(normalized, finallyNode)]

useNodes(group, w, errorMap) ==
    LET catalog == useTasks(w)
        normalized == handleParallelToParallelNodes(builderNodeList(group, w, errorMap))
        localTaskCount ==
            IF catalog.namespacedTasks = <<>> THEN 0 ELSE Len(catalog.namespacedTasks[1])
        clusterTaskCount ==
            IF catalog.clusterTasks = <<>> THEN 0 ELSE Len(catalog.clusterTasks[1])
        finallyNode == useConnectFinally(normalized, group, w, errorMap)
    IN [tasksCount |-> localTaskCount + clusterTaskCount,
        tasksLoaded |-> catalog.namespacedTasks # <<>> /\ catalog.clusterTasks # <<>>,
        nodes |-> Append(normalized, finallyNode)]

(***************************************************************************)
(* useResourceValidation. An object built by spreading is the list of its  *)
(* keys, in insertion order, with the value of each key: <<tags>> for an   *)
(* array of error types, <<>> for null.                                    *)
(***************************************************************************)
EmptyObject == [keys |-> <<>>, at |-> <<>>]
\* {...obj, [key]: value}
Assign(obj, key, value) ==
    [keys |-> IF key \in Range(obj.keys) THEN obj.keys ELSE Append(obj.keys, key),
     at |-> [k \in Range(obj.keys) \cup {key} |->
                IF k = key THEN value ELSE obj.at[k]]]
\* obj[key] is truthy
Truthy(obj, key) == key \in Range(obj.keys) /\ obj.at[key] # <<>>

\* resources?.outputs || [], resources?.inputs || [], workspaces || []
OutputsOf(task) ==
    IF "resources" \in DOMAIN task /\ "outputs" \in DOMAIN task.resources
    THEN task.resources.outputs ELSE <<>>
InputsOf(task) ==
    IF "resources" \in DOMAIN task /\ "inputs" \in DOMAIN task.resources
    THEN task.resources.inputs ELSE <<>>

\* The reduce callback that collects the errors of one task
taskErrorsInto(acc, task, vals) ==
    LET resourceNames == [i \in 1..Len(vals.resourceValues) |-> vals.resourceValues[i].name]
        missingResources ==
            SelectSeq(OutputsOf(task) \o InputsOf(task),
                      LAMBDA r : r.resource \notin Range(resourceNames))
        workspaceNames ==
            [i \in 1..Len(vals.workspaceValues) |-> vals.workspaceValues[i].name]
        missingWorkspaces ==
            IF "workspaces" \in DOMAIN task
            THEN SelectSeq(task.workspaces,
                           LAMBDA w : w.workspace \notin Range(workspaceNames))
            ELSE <<>>
        taskErrors ==
            (IF Len(missingResources) > 0 THEN <<"MISSING_RESOURCES">> ELSE <<>>)
            \o (IF Len(missingWorkspaces) > 0 THEN <<"MISSING_WORKSPACES">> ELSE <<>>)
    IN IF Len(missingResources) = 0 /\ Len(missingWorkspaces) = 0
       THEN acc
       ELSE Assign(acc, task.name, <<taskErrors>>)

RECURSIVE ReduceTasks(_, _, _)
ReduceTasks(acc, taskList, vals) ==
    IF taskList = <<>> THEN acc
    ELSE ReduceTasks(taskErrorsInto(acc, Head(taskList), vals), Tail(taskList), vals)

\* errors: [...tasks, ...finallyTasks].reduce(..., {})
validationErrors(vals) ==
    ReduceTasks(EmptyObject, vals.tasks \o vals.finallyTasks, vals)

RECURSIVE ClearPrevious(_, _)
\* outputErrors: previousErrorIds.reduce(..., errors)
\* outputErrors with the previous ids that are no longer in error left out
ClearPreviousLeftOut(acc, ids) == acc

ClearPrevious(acc, ids) ==
    IF ids = <<>> THEN acc
    ELSE ClearPrevious(IF Truthy(acc, Head(ids)) THEN acc
                       ELSE Assign(acc, Head(ids), <<>>),
                       Tail(ids))

\* Object.keys(outputErrors).filter((id) => !!outputErrors[id])
currentErrorIdsOf(outputErrors) ==
    SelectSeq(outputErrors.keys, LAMBDA id : Truthy(outputErrors, id))

\* The effect with onError inside the test of the ids: called only when
\* previousErrorIds is set
effectOutcomeOnChange(vals, prevIds) ==
    LET errors == validationErrors(vals)
        outputErrors == ClearPrevious(errors, prevIds)
        currentErrorIds == currentErrorIdsOf(outputErrors)
    IN IF (errors.keys # <<>> \/ Len(prevIds) > 0) /\ currentErrorIds # prevIds
       THEN [previousErrorIds |-> currentErrorIds, called |-> TRUE, arg |-> outputErrors]
       ELSE [previousErrorIds |-> prevIds, called |-> FALSE, arg |-> EmptyObject]

\* One run of the effect: the new previousErrorIds, whether onError is called,
\* and with what
effectOutcome(vals, prevIds) ==
    LET errors == validationErrors(vals)
        outputErrors == ClearPrevious(errors, prevIds)
        currentErrorIds == currentErrorIdsOf(outputErrors)
    IN IF errors.keys # <<>> \/ Len(prevIds) > 0
       THEN [previousErrorIds |->
                 IF currentErrorIds # prevIds THEN currentErrorIds ELSE prevIds,
             called |-> TRUE,
             arg |-> outputErrors]
       ELSE [previousErrorIds |-> prevIds, called |-> FALSE, arg |-> EmptyObject]

(***************************************************************************)
(* The state machines. The pipeline of the viewer and the task group of    *)
(* the builder are edited, and every change is rendered again.             *)
(***************************************************************************)
\* The runAfter a task of the given name may declare: none, or a list of
\* distinct names other than its own
RunAfterLists(name) ==
    LET preds == PredNames \ {name}
    IN {<<>>} \cup {<<p>> : p \in preds}
       \cup {<<pq[1], pq[2]>> : pq \in {pq \in preds \X preds : pq[1] # pq[2]}}

TaskChoices(name) ==
    {[name |-> name]} \cup {[name |-> name, runAfter |-> ra] : ra \in RunAfterLists(name)}

\* The task resources of the cluster, and the references a builder task may hold
NamespacedTaskData == <<[metadata |-> [name |-> "build"]]>>
ClusterTaskData == <<[metadata |-> [name |-> "git-clone"]]>>
TaskRefs == {[kind |-> "Task", name |-> "build"],
             [kind |-> "ClusterTask", name |-> "git-clone"],
             [kind |-> "Task", name |-> "missing"]}

EmptyPipeline == [metadata |-> [name |-> "pipeline"], spec |-> [tasks |-> <<>>]]
EmptyTaskGroup ==
    [tasks |-> <<>>, listTasks |-> <<>>, finallyTasks |-> <<>>,
     finallyListTasks |-> <<>>, highlightedIds |-> <<"a">>]
NothingLoaded ==
    [tasks |-> [loaded |-> FALSE, loadError |-> FALSE, data |-> <<>>],
     clusterTasks |-> [loaded |-> FALSE, loadError |-> FALSE, data |-> <<>>]]
ErrorsOfA == [n \in {"a"} |-> <<"MISSING_RESOURCES">>]

Render(pl, run) ==
    /\ pipeline' = pl
    /\ pipelineRun' = run
    /\ nodes' = getTopologyNodesEdges(pl, run).nodes
    /\ edges' = getTopologyNodesEdges(pl, run).edges

RenderBuilder(group, w) ==
    /\ taskGroup' = group
    /\ watch' = w
    /\ builderNodes' = useNodes(group, w, tasksInError).nodes
    /\ UNCHANGED tasksInError

Init ==
    /\ pipeline = EmptyPipeline
    /\ pipelineRun = <<>>
    /\ nodes = getTopologyNodesEdges(EmptyPipeline, <<>>).nodes
    /\ edges = getTopologyNodesEdges(EmptyPipeline, <<>>).edges
    /\ taskGroup = EmptyTaskGroup
    /\ watch = NothingLoaded
    /\ tasksInError = ErrorsOfA
    /\ builderNodes = useNodes(EmptyTaskGroup, NothingLoaded, ErrorsOfA).nodes
    /\ formValues = [tasks |-> <<>>, finallyTasks |-> <<>>,
                 resourceValues |-> <<>>, workspaceValues |-> <<>>]
    /\ previousErrorIds = <<>>
    /\ effectDue = TRUE
    /\ effectRuns = FALSE
    /\ onErrorCalls = FALSE
    /\ onErrorArg = EmptyObject
    /\ onErrorBefore = EmptyObject
    /\ idUpdates = 0

\* A task is declared after the tasks of the pipeline, in name order
AddTask(name, task) ==
    /\ Len(pipeline.spec.tasks) < MaxTasks
    /\ \A i \in 1..Len(pipeline.spec.tasks) :
           Rank(pipeline.spec.tasks[i].name) < Rank(name)
    /\ Render([pipeline EXCEPT !.spec.tasks = Append(@, task)], pipelineRun)
    /\ UNCHANGED <<builderVars, validationVars>>

\* The pipeline declares a finally list, empty at first
DeclareFinally ==
    /\ "finally" \notin DOMAIN pipeline.spec
    /\ Render([pipeline EXCEPT !.spec = WithField(@, "finally", <<>>)], pipelineRun)
    /\ UNCHANGED <<builderVars, validationVars>>

AddFinallyTask ==
    /\ "finally" \in DOMAIN pipeline.spec
    /\ Len(pipeline.spec.finally) < MaxFinally
    /\ Render([pipeline EXCEPT !.spec.finally =
                   Append(@, [name |-> FinallyNames[Len(@) + 1]])],
              pipelineRun)
    /\ UNCHANGED <<builderVars, validationVars>>

\* A run of the pipeline is shown
StartRun ==
    /\ pipelineRun = <<>>
    /\ Render(pipeline, [metadata |-> [name |-> "run"], status |-> "Running"])
    /\ UNCHANGED <<builderVars, validationVars>>

NextTasks == \E name \in TaskNames : \E task \in TaskChoices(name) : AddTask(name, task)

Next ==
    \/ NextTasks
    \/ DeclareFinally
    \/ AddFinallyTask
    \/ StartRun

\* The viewer
Spec == Init /\ [][Next]_vars
\* The viewer of a pipeline with no finally list and no run
SpecTasks == Init /\ [][NextTasks]_vars

\* The names the builder's tasks and list tasks have so far
BuilderNamesUsed ==
    {taskGroup.tasks[i].name : i \in 1..Len(taskGroup.tasks)}
        \cup {taskGroup.listTasks[i].name : i \in 1..Len(taskGroup.listTasks)}
\* The next name of BuilderNames, when the builder may add a node
CanAddBuilderNode ==
    /\ Cardinality(BuilderNamesUsed) < MaxBuilderNodes
    /\ Cardinality(BuilderNamesUsed) < Len(BuilderNames)
NextBuilderName == BuilderNames[Cardinality(BuilderNamesUsed) + 1]

AddBuilderTask(task, taskRef) ==
    /\ CanAddBuilderNode
    /\ task.name = NextBuilderName
    /\ RenderBuilder([taskGroup EXCEPT !.tasks =
                         Append(@, WithField(task, "taskRef", taskRef))], watch)
    /\ UNCHANGED <<viewerVars, validationVars>>

AddListTask(task) ==
    /\ CanAddBuilderNode
    /\ task.name = NextBuilderName
    /\ RenderBuilder([taskGroup EXCEPT !.listTasks = Append(@, task)], watch)
    /\ UNCHANGED <<viewerVars, validationVars>>

AddBuilderFinallyTask(taskRef) ==
    /\ Len(taskGroup.finallyTasks) + Len(taskGroup.finallyListTasks) < MaxFinally
    /\ RenderBuilder([taskGroup EXCEPT !.finallyTasks =
                         Append(@, [name |-> FinallyNames[Len(@) + 1],
                                    taskRef |-> taskRef])], watch)
    /\ UNCHANGED <<viewerVars, validationVars>>

AddFinallyListTask ==
    /\ Len(taskGroup.finallyTasks) + Len(taskGroup.finallyListTasks) < MaxFinally
    /\ RenderBuilder([taskGroup EXCEPT !.finallyListTasks =
                         Append(@, [name |-> FinallyListNames[Len(@) + 1]])], watch)
    /\ UNCHANGED <<viewerVars, validationVars>>

\* The watches of the namespace's tasks and of the cluster tasks deliver
TasksLoaded ==
    /\ ~watch.tasks.loaded
    /\ RenderBuilder(taskGroup,
           [tasks |-> [loaded |-> TRUE, loadError |-> FALSE,
                       data |-> NamespacedTaskData],
            clusterTasks |-> [loaded |-> TRUE, loadError |-> FALSE,
                              data |-> ClusterTaskData]])
    /\ UNCHANGED <<viewerVars, validationVars>>

NextBuilder ==
    \/ \E name \in Range(BuilderNames) : \E task \in TaskChoices(name) :
          \E taskRef \in TaskRefs : AddBuilderTask(task, taskRef)
    \/ \E name \in Range(BuilderNames) : \E task \in TaskChoices(name) :
          AddListTask(task)
    \/ \E taskRef \in TaskRefs : AddBuilderFinallyTask(taskRef)
    \/ AddFinallyListTask
    \/ TasksLoaded

\* The builder
SpecBuilder == Init /\ [][NextBuilder]_vars

\* The tasks the builder may add next when a task may run after the nodes that
\* are there (and after "y", which is no node)
ChainRunAfterLists ==
    LET preds == BuilderNamesUsed \cup {"y"}
    IN {<<>>} \cup {<<p>> : p \in preds}
       \cup {<<pq[1], pq[2]>> : pq \in {pq \in preds \X preds : pq[1] # pq[2]}}
ChainChoices(name) ==
    {[name |-> name]} \cup {[name |-> name, runAfter |-> ra] : ra \in ChainRunAfterLists}
ChainTaskRefs == {[kind |-> "Task", name |-> "build"], [kind |-> "Task", name |-> "missing"]}

NextBuilderFinally ==
    \/ \E name \in Range(BuilderNames) : \E task \in ChainChoices(name) :
          \E taskRef \in ChainTaskRefs : AddBuilderTask(task, taskRef)
    \/ \E name \in Range(BuilderNames) : \E task \in ChainChoices(name) :
          AddListTask(task)
    \/ AddBuilderFinallyTask([kind |-> "ClusterTask", name |-> "git-clone"])
    \/ AddFinallyListTask
    \/ TasksLoaded

\* The builder, its tasks running after one another
SpecBuilderFinally == Init /\ [][NextBuilderFinally]_vars

\* The tasks the form may hold, and the resources and workspaces it may declare
BuildTask == [name |-> "build",
              resources |-> [inputs |-> <<[name |-> "source", resource |-> "src"]>>],
              workspaces |-> <<[name |-> "cache", workspace |-> "ws"]>>]
PushTask == [name |-> "push",
             resources |-> [outputs |-> <<[name |-> "image", resource |-> "img"]>>]]
LintTask == [name |-> "lint"]
NotifyTask == [name |-> "notify",
               workspaces |-> <<[name |-> "cache", workspace |-> "ws"]>>]
FormTaskLists == {<<>>, <<BuildTask>>, <<BuildTask, PushTask>>, <<PushTask, BuildTask>>,
                  <<LintTask, PushTask>>}
FormFinallyLists == {<<>>, <<NotifyTask>>}
FormResourceLists == {<<>>, <<[name |-> "src"]>>, <<[name |-> "src"], [name |-> "img"]>>}
FormWorkspaceLists == {<<>>, <<[name |-> "ws"]>>}

\* The form changes one argument of the hook: the effect is due again
SetValue(field, value) ==
    /\ formValues[field] # value
    /\ formValues' = [formValues EXCEPT ![field] = value]
    /\ effectDue' = TRUE
    /\ idUpdates' = 0
    /\ UNCHANGED <<previousErrorIds, effectRuns, onErrorCalls, onErrorArg, onErrorBefore>>
    /\ UNCHANGED <<viewerVars, builderVars>>

\* React runs the effect; setPreviousErrorIds with a new value makes it due again
RunEffect ==
    /\ effectDue
    /\ LET outcome == effectOutcome(formValues, previousErrorIds)
       IN /\ previousErrorIds' = outcome.previousErrorIds
          /\ effectDue' = (outcome.previousErrorIds # previousErrorIds)
          /\ onErrorCalls' = IF outcome.called THEN ~onErrorCalls ELSE onErrorCalls
          /\ onErrorArg' = IF outcome.called THEN outcome.arg ELSE onErrorArg
          /\ onErrorBefore' = IF outcome.called THEN onErrorArg ELSE onErrorBefore
          /\ idUpdates' = IF outcome.previousErrorIds # previousErrorIds
                             /\ idUpdates < MaxIdUpdates
                          THEN idUpdates + 1
                          ELSE idUpdates
    /\ effectRuns' = ~effectRuns
    /\ UNCHANGED formValues
    /\ UNCHANGED <<viewerVars, builderVars>>

NextValidation ==
    \/ \E ts \in FormTaskLists : SetValue("tasks", ts)
    \/ \E fs \in FormFinallyLists : SetValue("finallyTasks", fs)
    \/ \E rs \in FormResourceLists : SetValue("resourceValues", rs)
    \/ \E ws \in FormWorkspaceLists : SetValue("workspaceValues", ws)
    \/ RunEffect

\* The builder's resource validation
SpecValidation == Init /\ [][NextValidation]_vars


(***************************************************************************)
(* Vocabulary of the properties                                            *)
(***************************************************************************)
\* The runAfter of a node as a list and as a set; a missing runAfter is empty
RunAfterOf(node) ==
    IF HasRunAfter(node.data.task) THEN node.data.task.runAfter ELSE <<>>
RunAfterSet(node) == Range(RunAfterOf(node))
NodeIds(nodeList) == {nodeList[i].id : i \in 1..Len(nodeList)}
IsSpacer(node) == node.type = "SPACER_NODE"
SpacerIds(nodeList) ==
    {nodeList[k].id : k \in {k \in 1..Len(nodeList) : IsSpacer(nodeList[k])}}

\* The task nodes handleParallelToParallelNodes was given in the last render,
\* and what it returned
ViewerInput ==
    taskNodeList(Concat(getPipelineTasks(pipeline, pipelineRun)), pipeline, pipelineRun)
ViewerOutput == handleParallelToParallelNodes(ViewerInput)

\* The positions of the nodes that share the runAfter set of node i, when that
\* set is a runAfter of length >= 2
SharingGroup(nodeList, i) ==
    {j \in 1..Len(nodeList) :
        /\ Len(RunAfterOf(nodeList[j])) >= 2
        /\ Len(RunAfterOf(nodeList[i])) >= 2
        /\ RunAfterSet(nodeList[j]) = RunAfterSet(nodeList[i])}
\* The groups of two or more nodes that share a runAfter of length >= 2
SharingGroups(nodeList) ==
    {SharingGroup(nodeList, i) : i \in 1..Len(nodeList)}
        \ {g \in SUBSET (1..Len(nodeList)) : Cardinality(g) < 2}
Grouped(nodeList) == UNION SharingGroups(nodeList)

RECURSIVE SumRunAfter(_)
SumRunAfter(nodeList) ==
    IF nodeList = <<>> THEN 0
    ELSE Len(RunAfterOf(Head(nodeList))) + SumRunAfter(Tail(nodeList))

(***************************************************************************)
(* C1: handleParallelToParallelNodes gives every group of two or more      *)
(* nodes that share a runAfter of length >= 2 (as a set) exactly one       *)
(* spacer with that runAfter, points every member of the group at that     *)
(* spacer alone, carries every other node over unchanged, and returns as   *)
(* many nodes as it was given plus one per group.                          *)
(***************************************************************************)
P2PGroupsGetOneSpacer ==
    LET input == ViewerInput
        output == ViewerOutput
    IN /\ Len(output) = Len(input) + Cardinality(SharingGroups(input))
       /\ \A g \in SharingGroups(input) :
            LET shared == RunAfterSet(input[CHOOSE i \in g : TRUE])
                spacers == {k \in 1..Len(output) :
                               IsSpacer(output[k]) /\ RunAfterSet(output[k]) = shared}
            IN /\ Cardinality(spacers) = 1
               /\ \A i \in g : \E k \in 1..Len(output) : \E s \in spacers :
                      /\ ~IsSpacer(output[k])
                      /\ output[k].id = input[i].id
                      /\ RunAfterOf(output[k]) = <<output[s].id>>
       /\ \A i \in 1..Len(input) :
            i \notin Grouped(input) => \E k \in 1..Len(output) : output[k] = input[i]

\* Two nodes share [x, y] in either order and a third node runs after x alone
P2PGroupWithBystander ==
    LET input == ViewerInput
    IN \E i, j, c \in 1..Len(input) :
          /\ RunAfterOf(input[i]) = <<"x", "y">>
          /\ RunAfterOf(input[j]) = <<"y", "x">>
          /\ RunAfterOf(input[c]) = <<"x">>
          /\ Cardinality(SpacerIds(ViewerOutput)) = 1
          /\ input[c] \in Range(ViewerOutput)

(***************************************************************************)
(* C2: the finally node that connectFinallyTasksToNodes appends runs after *)
(* the sinks of the graph it was given: the ids of the nodes that are in   *)
(* the runAfter of no other node.                                          *)
(***************************************************************************)
Sinks(nodeList) ==
    {nodeList[i].id : i \in
        {i \in 1..Len(nodeList) :
            \A j \in 1..Len(nodeList) :
                j # i => nodeList[i].id \notin RunAfterSet(nodeList[j])}}

FinallyNodeRunsAfterSinks ==
    LET given == tasksToNodes(Concat(getPipelineTasks(pipeline, pipelineRun)),
                              pipeline, pipelineRun)
    IN Len(nodes) = Len(given) + 1 =>
          /\ nodes[Len(nodes)].type = "FINALLY_NODE"
          /\ RunAfterSet(nodes[Len(nodes)]) = Sinks(given)

\* a and b run after x, x runs after nothing, and the finally node is appended
FinallySinksExample ==
    /\ Len(pipeline.spec.tasks) = 3
    /\ pipeline.spec.tasks[1] = [name |-> "a", runAfter |-> <<"x">>]
    /\ pipeline.spec.tasks[2] = [name |-> "b", runAfter |-> <<"x">>]
    /\ pipeline.spec.tasks[3] = [name |-> "x", runAfter |-> <<>>]
    /\ "finally" \in DOMAIN pipeline.spec /\ Len(pipeline.spec.finally) > 0
    /\ nodes[Len(nodes)].id = "finally-node"
    /\ RunAfterOf(nodes[Len(nodes)]) = <<"a", "b">>

(***************************************************************************)
(* C3: when the pipeline has no finally tasks (no finally list, or a list  *)
(* of zero tasks) connectFinallyTasksToNodes returns its input and the     *)
(* edges are those of the regular nodes.                                   *)
(***************************************************************************)
FinallyListEmpty(pl) ==
    "finally" \notin DOMAIN pl.spec \/ Len(pl.spec.finally) = 0

NoFinallyIdentity ==
    LET given == tasksToNodes(Concat(getPipelineTasks(pipeline, pipelineRun)),
                              pipeline, pipelineRun)
    IN FinallyListEmpty(pipeline) =>
          /\ nodes = given
          /\ Len(edges) = SumRunAfter(given)

(***************************************************************************)
(* C4: getEdgesFromNodes returns one edge per (predecessor, node) pair:    *)
(* as many edges as the runAfter lists have entries, each from the         *)
(* predecessor to the node's task name with id "<source>~to~<target>".     *)
(***************************************************************************)
OneEdgePerPredecessor ==
    /\ Len(edges) = SumRunAfter(nodes)
    /\ \A i \in 1..Len(nodes) : \A k \in 1..Len(RunAfterOf(nodes[i])) :
          \E e \in Range(edges) :
              /\ e.source = RunAfterOf(nodes[i])[k]
              /\ e.target = nodes[i].data.task.name
    /\ \A e \in Range(edges) :
          /\ e.id = e.source \o "~to~" \o e.target
          /\ \E i \in 1..Len(nodes) :
                /\ e.target = nodes[i].data.task.name
                /\ e.source \in RunAfterSet(nodes[i])

\* Nodes with no runAfter, an empty one and one of two names, and some edges
EdgesOfMixedNodes ==
    /\ \E i \in 1..Len(nodes) : ~HasRunAfter(nodes[i].data.task)
    /\ \E i \in 1..Len(nodes) :
          HasRunAfter(nodes[i].data.task) /\ RunAfterOf(nodes[i]) = <<>>
    /\ \E i \in 1..Len(nodes) : Len(RunAfterOf(nodes[i])) = 2
    /\ Len(edges) >= 3

(***************************************************************************)
(* C5: when the task names are distinct and every runAfter names a task of *)
(* the list, every edge of the topology starts and ends at a node of the   *)
(* topology.                                                               *)
(***************************************************************************)
TaskNamesOf(pl) == {pl.spec.tasks[i].name : i \in 1..Len(pl.spec.tasks)}
RunAfterResolved(pl) ==
    \A i \in 1..Len(pl.spec.tasks) :
        HasRunAfter(pl.spec.tasks[i]) =>
            Range(pl.spec.tasks[i].runAfter) \subseteq TaskNamesOf(pl)

EdgesJoinNodes ==
    RunAfterResolved(pipeline) =>
        \A e \in Range(edges) :
            e.source \in NodeIds(nodes) /\ e.target \in NodeIds(nodes)

\* Every runAfter resolves, a spacer was inserted and the finally node appended
ResolvedWithSpacerAndFinally ==
    /\ RunAfterResolved(pipeline)
    /\ \E k \in 1..Len(nodes) : IsSpacer(nodes[k])
    /\ \E k \in 1..Len(nodes) :
          nodes[k].type = "FINALLY_NODE" /\ Len(RunAfterOf(nodes[k])) = 2
    /\ Len(edges) >= 6

(***************************************************************************)
(* C6: the ids of the nodes of the topology are pairwise distinct.         *)
(***************************************************************************)
NodeIdsUnique ==
    \A i, j \in 1..Len(nodes) : i # j => nodes[i].id # nodes[j].id

(***************************************************************************)
(* C7: the spacer ids do not depend on the order of the node list: the id  *)
(* of a spacer is "parallel-" and the alphabetically sorted ids of its     *)
(* members joined by '-', so a permutation of the node list yields the     *)
(* same spacer ids and the same assignment of members to spacers.          *)
(***************************************************************************)
\* The permutations of 1..n
PermsOf == [n \in 0..(MaxTasks + 1) |->
               {f \in [1..n -> 1..n] : \A i, j \in 1..n : i # j => f[i] # f[j]}]
Permute(nodeList, f) == [i \in 1..Len(nodeList) |-> nodeList[f[i]]]

\* The node of the output that stands for the input node of the given id
OutputNodeOf(output, id) ==
    output[CHOOSE k \in 1..Len(output) : ~IsSpacer(output[k]) /\ output[k].id = id]
\* The member ids of the groups with the runAfter each member got
SpacerAssignment(input, output) ==
    {<<input[i].id, RunAfterOf(OutputNodeOf(output, input[i].id))>> : i \in Grouped(input)}
\* The ids of the members of a group in the order of the node list
RECURSIVE MemberIdsInOrder(_, _, _)
MemberIdsInOrder(nodeList, g, i) ==
    IF i > Len(nodeList) THEN <<>>
    ELSE (IF i \in g THEN <<nodeList[i].id>> ELSE <<>>)
         \o MemberIdsInOrder(nodeList, g, i + 1)

SpacerIdsIgnoreInputOrder ==
    LET input == ViewerInput
        output == ViewerOutput
    IN \A f \in PermsOf[Len(input)] :
          LET permuted == Permute(input, f)
              result == handleParallelToParallelNodes(permuted)
          IN /\ SpacerIds(result) = SpacerIds(output)
             /\ SpacerAssignment(permuted, result) = SpacerAssignment(input, output)
             /\ \A g \in SharingGroups(permuted) :
                   "parallel-" \o Join(SortNames(MemberIdsInOrder(permuted, g, 1)), "-")
                       \in SpacerIds(result)

\* C7 as the code has it: the spacer id of a group is "parallel-" and the ids
\* of its members in the order of the node list, joined by '-'; a permutation
\* of the node list keeps which members share a spacer and the runAfter set of
\* each member's spacer, but not the spacer ids.
SharesSpacer(input, output) ==
    {<<input[i].id, input[j].id>> : <<i, j>> \in
        {ij \in Grouped(input) \X Grouped(input) :
            RunAfterOf(OutputNodeOf(output, input[ij[1]].id))
                = RunAfterOf(OutputNodeOf(output, input[ij[2]].id))}}

SpacerIdsFollowInputOrder ==
    LET input == ViewerInput
        shares == SharesSpacer(input, ViewerOutput)
    IN \A f \in PermsOf[Len(input)] :
          LET permuted == Permute(input, f)
              result == handleParallelToParallelNodes(permuted)
          IN /\ \A g \in SharingGroups(permuted) :
                   LET id == "parallel-" \o Join(MemberIdsInOrder(permuted, g, 1), "-")
                   IN /\ id \in SpacerIds(result)
                      /\ \A i \in g :
                            RunAfterOf(OutputNodeOf(result, permuted[i].id)) = <<id>>
                      /\ \E k \in 1..Len(result) :
                            /\ IsSpacer(result[k]) /\ result[k].id = id
                            /\ RunAfterSet(result[k]) = RunAfterSet(permuted[CHOOSE i \in g : TRUE])
             /\ SharesSpacer(permuted, result) = shares

\* A group of two whose spacer gets another id when the node list is permuted
PermutationRenamesSpacer ==
    LET input == ViewerInput
    IN /\ \E g \in SharingGroups(input) : Cardinality(g) = 2
       /\ \E f \in PermsOf[Len(input)] :
             /\ SpacerIds(handleParallelToParallelNodes(Permute(input, f))) # {}
             /\ SpacerIds(handleParallelToParallelNodes(Permute(input, f)))
                    # SpacerIds(ViewerOutput)

(***************************************************************************)
(* C9: spacer insertion preserves reachability: every node that is no      *)
(* spacer has the same ancestors that are no spacers after                 *)
(* handleParallelToParallelNodes as before, and every rewritten member     *)
(* reaches each of its former predecessors in two hops, through its        *)
(* spacer.                                                                 *)
(***************************************************************************)
\* The names the nodes of the given id run after
PredsOfId(nodeList, id) ==
    UNION {RunAfterSet(nodeList[i]) : i \in {i \in 1..Len(nodeList) : nodeList[i].id = id}}

RECURSIVE Closure(_, _)
\* The names reachable from the given names along runAfter
Closure(nodeList, names) ==
    LET more == names \cup UNION {PredsOfId(nodeList, n) : n \in names}
    IN IF more = names THEN names ELSE Closure(nodeList, more)

Ancestors(nodeList, node) == Closure(nodeList, RunAfterSet(node))
\* A name that stands for spacers only
SpacerOnly(nodeList, name) ==
    /\ \E i \in 1..Len(nodeList) : nodeList[i].id = name
    /\ \A i \in 1..Len(nodeList) : nodeList[i].id = name => IsSpacer(nodeList[i])
NonSpacerAncestors(nodeList, node) ==
    {n \in Ancestors(nodeList, node) : ~SpacerOnly(nodeList, n)}

SpacersPreserveReachability ==
    LET input == ViewerInput
        output == ViewerOutput
    IN /\ \A i \in 1..Len(input) :
            NonSpacerAncestors(output, OutputNodeOf(output, input[i].id))
                = NonSpacerAncestors(input, input[i])
       /\ \A i \in Grouped(input) : \A pred \in RunAfterSet(input[i]) :
            LET member == OutputNodeOf(output, input[i].id)
            IN /\ pred \notin RunAfterSet(member)
               /\ \E s \in 1..Len(output) :
                     /\ IsSpacer(output[s])
                     /\ output[s].id \in RunAfterSet(member)
                     /\ pred \in RunAfterSet(output[s])

(***************************************************************************)
(* C8: a group member that handleParallelToParallelNodes rewrites keeps    *)
(* its id, its node type, its width and height and every field of its     *)
(* data but task.runAfter, for the node types the builder creates.         *)
(***************************************************************************)
BuilderInput == builderNodeList(taskGroup, watch, tasksInError)
BuilderOutput == handleParallelToParallelNodes(BuilderInput)

P2PRewriteKeepsTheNode ==
    LET input == BuilderInput
        output == BuilderOutput
    IN \A i \in Grouped(input) :
          LET before == input[i]
              after == OutputNodeOf(output, before.id)
          IN /\ after.id = before.id
             /\ after.type = before.type
             /\ after.width = before.width
             /\ after.height = before.height
             /\ DOMAIN after.data = DOMAIN before.data
             /\ \A field \in DOMAIN before.data \ {"task"} :
                   after.data[field] = before.data[field]
             /\ DOMAIN after.data.task = DOMAIN before.data.task \cup {"runAfter"}
             /\ \A field \in DOMAIN before.data.task \ {"runAfter"} :
                   after.data.task[field] = before.data.task[field]

(***************************************************************************)
(* C11: the builder aggregates the finally tasks as the viewer does: with  *)
(* no finally tasks and no finally list placeholders in the task group no  *)
(* aggregate node is appended to the normalized node list; otherwise       *)
(* exactly one is appended, and it runs after the sinks of that list.      *)
(***************************************************************************)
NoBuilderFinally ==
    Len(taskGroup.finallyTasks) + Len(taskGroup.finallyListTasks) = 0
\* The node after the normalized nodes is the one aggregate node, and it runs
\* after the sinks of the normalized nodes
OneAggregateOverSinks ==
    /\ Len(builderNodes) = Len(BuilderOutput) + 1
    /\ SubSeq(builderNodes, 1, Len(BuilderOutput)) = BuilderOutput
    /\ builderNodes[Len(builderNodes)].type = "BUILDER_FINALLY_NODE"
    /\ \A i \in 1..Len(BuilderOutput) : BuilderOutput[i].type # "BUILDER_FINALLY_NODE"
    /\ RunAfterSet(builderNodes[Len(builderNodes)]) = Sinks(BuilderOutput)

BuilderFinallyAsViewer ==
    IF NoBuilderFinally
    THEN builderNodes = BuilderOutput
    ELSE OneAggregateOverSinks

\* C11 as the code has it: useNodes appends the aggregate node at every render,
\* also for a task group with no finally tasks and no finally list placeholders;
\* the node is named by the two counts, lists the finally tasks and the
\* placeholders of the task group in their order, and runs after the sinks of
\* the normalized node list.
BuilderAlwaysAppendsFinallyNode ==
    LET last == builderNodes[Len(builderNodes)]
    IN /\ OneAggregateOverSinks
       /\ last.id = "finally-node-" \o ToString(Len(taskGroup.finallyTasks))
                       \o "-" \o ToString(Len(taskGroup.finallyListTasks))
       /\ Len(last.data.task.finallyTasks) = Len(taskGroup.finallyTasks)
       /\ \A i \in 1..Len(taskGroup.finallyTasks) :
             last.data.task.finallyTasks[i].name = taskGroup.finallyTasks[i].name
       /\ Len(last.data.task.finallyListTasks) = Len(taskGroup.finallyListTasks)
       /\ \A i \in 1..Len(taskGroup.finallyListTasks) :
             last.data.task.finallyListTasks[i].name = taskGroup.finallyListTasks[i].name

\* Task b runs after task a and there is no finally task: the aggregate node is
\* there, empty, and runs after b alone
EmptyAggregateOverSinks ==
    /\ NoBuilderFinally
    /\ NodeIds(BuilderOutput) = {"a", "b"}
    /\ builderNodes[Len(builderNodes)].id = "finally-node-0-0"
    /\ RunAfterSet(builderNodes[Len(builderNodes)]) = {"b"}

(***************************************************************************)
(* C10: useResourceValidation calls onError only when the errors differ    *)
(* from those it last reported: never again for an unchanged error state.  *)
(***************************************************************************)
\* The error state an argument of onError reports: the tasks in error with
\* their error types
ErrorState(arg) ==
    [id \in {id \in Range(arg.keys) : arg.at[id] # <<>>} |-> arg.at[id][1]]

OnErrorOnlyOnChange ==
    [][onErrorCalls' # onErrorCalls => ErrorState(onErrorArg') # ErrorState(onErrorArg)]_vars

\* C10 as the code has it: every run of the effect at which a task is in error
\* or previousErrorIds is not empty calls onError, also when the errors are those
\* of the last call; the argument holds the error types of every task in error
\* and null for every id of previousErrorIds that is no longer in error. A run
\* with no task in error and no previous id makes no call.
MissingOf(task, vals) ==
    {tag \in {"MISSING_RESOURCES", "MISSING_WORKSPACES"} :
        \/ /\ tag = "MISSING_RESOURCES"
           /\ \E r \in Range(OutputsOf(task)) \cup Range(InputsOf(task)) :
                 \A v \in Range(vals.resourceValues) : v.name # r.resource
        \/ /\ tag = "MISSING_WORKSPACES"
           /\ "workspaces" \in DOMAIN task
           /\ \E w \in Range(task.workspaces) :
                 \A v \in Range(vals.workspaceValues) : v.name # w.workspace}
TasksInErrorNow(vals) ==
    {task.name : task \in {t \in Range(vals.tasks) \cup Range(vals.finallyTasks) :
                              MissingOf(t, vals) # {}}}

OnErrorAtEveryRunWithErrors ==
    [][effectRuns' # effectRuns =>
          IF TasksInErrorNow(formValues) # {} \/ previousErrorIds # <<>>
          THEN /\ onErrorCalls' # onErrorCalls
               /\ Range(onErrorArg'.keys) = TasksInErrorNow(formValues) \cup Range(previousErrorIds)
               /\ \A id \in Range(previousErrorIds) \ TasksInErrorNow(formValues) :
                     onErrorArg'.at[id] = <<>>
               /\ \A task \in Range(formValues.tasks) \cup Range(formValues.finallyTasks) :
                     task.name \in TasksInErrorNow(formValues) =>
                        /\ onErrorArg'.at[task.name] # <<>>
                        /\ Range(onErrorArg'.at[task.name][1]) = MissingOf(task, formValues)
          ELSE onErrorCalls' = onErrorCalls /\ onErrorArg' = onErrorArg]_vars

\* The last two calls of onError reported the same tasks in error with the same
\* error types
RepeatedReport ==
    /\ Range(onErrorBefore.keys) # {}
    /\ ErrorState(onErrorArg) = ErrorState(onErrorBefore)
    /\ DOMAIN ErrorState(onErrorArg) # {}

(***************************************************************************)
(* C12: useResourceValidation clears stale errors and then settles. At a   *)
(* run of the effect, every name of previousErrorIds whose task is not in  *)
(* error is mapped to null in the argument of that run's onError call, and *)
(* previousErrorIds becomes the list of the names in error; while the      *)
(* arguments of the hook stay as they are previousErrorIds is updated once *)
(* at most (so the effect is not re-run without end); and a run with no    *)
(* task in error and an empty previousErrorIds calls nothing and leaves    *)
(* the effect settled.                                                     *)
(***************************************************************************)
StaleIds == Range(previousErrorIds) \ TasksInErrorNow(formValues)
IsListOf(list, set) ==
    /\ Range(list) = set
    /\ Len(list) = Cardinality(set)

StaleErrorsClearedThenSettled ==
    [][effectRuns' # effectRuns =>
          /\ StaleIds # {} =>
                /\ onErrorCalls' # onErrorCalls
                /\ \A id \in StaleIds :
                      /\ id \in Range(onErrorArg'.keys)
                      /\ onErrorArg'.at[id] = <<>>
                /\ previousErrorIds' # previousErrorIds
                /\ IsListOf(previousErrorIds', TasksInErrorNow(formValues))
          /\ idUpdates' <= 1
          /\ previousErrorIds' # previousErrorIds => idUpdates' = idUpdates + 1
          /\ effectDue' =>
                effectOutcome(formValues', previousErrorIds').previousErrorIds
                    = previousErrorIds'
          /\ (TasksInErrorNow(formValues) = {} /\ previousErrorIds = <<>>) =>
                /\ onErrorCalls' = onErrorCalls
                /\ onErrorArg' = onErrorArg
                /\ previousErrorIds' = <<>>
                /\ ~effectDue']_vars

\* push was reported and is no longer in error while build still is: the call
\* before the last gave null for push, previousErrorIds became build alone, and
\* the re-run reported build, updated nothing and left the effect settled
StaleErrorClearedAndSettled ==
    /\ "push" \in Range(onErrorBefore.keys)
    /\ onErrorBefore.at["push"] = <<>>
    /\ onErrorArg.keys = <<"build">>
    /\ previousErrorIds = <<"build">>
    /\ idUpdates = 1
    /\ ~effectDue

====
